---- MODULE Spec2Model ----
(***************************************************************************)
(* A model of quick_quiz.py: the question classes QuizQuestion and         *)
(* MultipleChoiceQuizQuestion, their ask/validate/retry loop, and the      *)
(* SimpleQuiz runner with main().                                          *)
(*                                                                         *)
(* A text (python str) is a sequence of one-character strings.  None is    *)
(* the empty tuple and a value v that is present is <<v>>, for the fields  *)
(* python leaves optional (answer, options, a supplied response_settings). *)
(***************************************************************************)
EXTENDS Integers, Sequences, FiniteSets, TLC

\* --------------------------------------------------------------------------
\* Bounds of the model
\* --------------------------------------------------------------------------
\* longest text typed at a prompt
MaxLen == 2
\* largest max_attempts of an explicitly supplied ResponseSettings
MaxPolicyAttempts == 2
\* largest correct_points of an explicitly supplied ResponseSettings
MaxPoints == 2
\* number of questions of a drawn question bank
BankLen == 2
\* number of times transform is applied to a text in a row
MaxApply == 2

\* --------------------------------------------------------------------------
\* Texts and the str methods the transformations use
\* --------------------------------------------------------------------------
LowerLetters == <<"a", "b", "c", "d", "e", "f", "g", "h", "i", "j", "k", "l", "m",
                  "n", "o", "p", "q", "r", "s", "t", "u", "v", "w", "x", "y", "z">>

UpperLetters == <<"A", "B", "C", "D", "E", "F", "G", "H", "I", "J", "K", "L", "M",
                  "N", "O", "P", "Q", "R", "S", "T", "U", "V", "W", "X", "Y", "Z">>

None == <<>>

Some(v) == <<v>>

Index(c, letters) == CHOOSE i \in 1..Len(letters) : letters[i] = c

\* the case mappings of the letters, as tables
UpperOf == [c \in {LowerLetters[i] : i \in 1..Len(LowerLetters)} |->
                UpperLetters[Index(c, LowerLetters)]]

LowerOf == [c \in {UpperLetters[i] : i \in 1..Len(UpperLetters)} |->
                LowerLetters[Index(c, UpperLetters)]]

IsLower(c) == c \in DOMAIN UpperOf

IsUpper(c) == c \in DOMAIN LowerOf

IsCased(c) == IsLower(c) \/ IsUpper(c)

ToUpper(c) == IF IsLower(c) THEN UpperOf[c] ELSE c

ToLower(c) == IF IsUpper(c) THEN LowerOf[c] ELSE c

\* str.upper
str_upper(text) == [i \in 1..Len(text) |-> ToUpper(text[i])]

\* str.lower
str_lower(text) == [i \in 1..Len(text) |-> ToLower(text[i])]

\* str.swapcase
str_swapcase(text) ==
    [i \in 1..Len(text) |-> IF IsLower(text[i]) THEN ToUpper(text[i]) ELSE ToLower(text[i])]

\* str.capitalize: first character upper case, the rest lower case
str_capitalize(text) ==
    [i \in 1..Len(text) |-> IF i = 1 THEN ToUpper(text[i]) ELSE ToLower(text[i])]

\* str.title: a cased character is upper case when it starts a word (the
\* character before it is not cased) and lower case otherwise
str_title(text) ==
    [i \in 1..Len(text) |->
        IF i > 1 /\ IsCased(text[i - 1]) THEN ToLower(text[i]) ELSE ToUpper(text[i])]

\* the keys of the transformations table of set_transformation
transformations == {"title", "upper", "lower", "capitalize", "swapcase"}

\* mutant of transform: the entry for "lower" of the table holds str.swapcase
transform_lower_swaps(transformation_name, text) ==
    CASE transformation_name = "title" -> str_title(text)
      [] transformation_name = "upper" -> str_upper(text)
      [] transformation_name = "lower" -> str_swapcase(text)
      [] transformation_name = "capitalize" -> str_capitalize(text)
      [] transformation_name = "swapcase" -> str_swapcase(text)

\* transform: apply the selected transformation to the text
transform(transformation_name, text) ==
    CASE transformation_name = "title" -> str_title(text)
      [] transformation_name = "upper" -> str_upper(text)
      [] transformation_name = "lower" -> str_lower(text)
      [] transformation_name = "capitalize" -> str_capitalize(text)
      [] transformation_name = "swapcase" -> str_swapcase(text)

\* --------------------------------------------------------------------------
\* ResponseSettings and the construction of questions
\* --------------------------------------------------------------------------
\* ResponseSettings(): the dataclass defaults
ResponseSettings ==
    [correct_reponse |-> "Correct!", incorrect_response |-> "Incorrect.",
     max_attempts |-> 1, correct_points |-> 1]

\* the max_attempts MultipleChoiceQuizQuestion.__post_init__ assigns
MultipleChoiceMaxAttempts == 3

\* mutant of set_transformation: the name is stored before it is looked up
set_transformation_stores_first(q, transformation_name) ==
    IF transformation_name \in transformations
    THEN [q |-> [q EXCEPT !.transformation_name = transformation_name,
                          !.transformation = transformation_name],
          raised |-> ""]
    ELSE [q |-> [q EXCEPT !.transformation_name = transformation_name],
          raised |-> "ValueError: Invalid transformation"]

\* set_transformation: the question after the call and the exception raised
\* ("" for none).  The field transformation holds the function selected, named
\* by its key in the table.
set_transformation(q, transformation_name) ==
    IF transformation_name \in transformations
    THEN [q |-> [q EXCEPT !.transformation_name = transformation_name,
                          !.transformation = transformation_name],
          raised |-> ""]
    ELSE [q |-> q, raised |-> "ValueError: Invalid transformation"]

\* the fields the dataclass __init__ of QuizQuestion assigns, before
\* __post_init__: transformation is not set yet (""); response_settings None
\* takes the default_factory
QuizQuestionFields(question, correct_answer, transformation_name, response_settings) ==
    [kind |-> "QuizQuestion",
     question |-> <<question>>,
     correct_answer |-> correct_answer,
     answer |-> None,
     transformation_name |-> transformation_name,
     transformation |-> "",
     response_settings |->
        IF response_settings = None THEN ResponseSettings ELSE response_settings[1],
     options |-> None,
     attempt_count |-> 0]

\* QuizQuestion(question, correct_answer, transformation_name, response_settings):
\* the fields after __post_init__, which calls set_transformation
QuizQuestion(question, correct_answer, transformation_name, response_settings) ==
    set_transformation(
        QuizQuestionFields(question, correct_answer, transformation_name,
                           response_settings),
        transformation_name).q

\* MultipleChoiceQuizQuestion.__post_init__: the assignment to the settings
\* object the question holds (the caller's object when one was passed)
MultipleChoicePostInit(response_settings) ==
    [response_settings EXCEPT !.max_attempts = MultipleChoiceMaxAttempts]

\* MultipleChoiceQuizQuestion(question, correct_answer, ..., options)
MultipleChoiceQuizQuestion(question, correct_answer, name, response_settings, options) ==
    LET base == QuizQuestion(question, correct_answer, name, response_settings)
    IN  [base EXCEPT !.kind = "MultipleChoiceQuizQuestion",
                     !.response_settings = MultipleChoicePostInit(base.response_settings),
                     !.options = options]

\* add_option: append (key, label), starting from an empty list when options is unset
add_option(q, option_item) ==
    LET current == IF q.options = None \/ q.options[1] = <<>> THEN <<>> ELSE q.options[1]
    IN  [q EXCEPT !.options = Some(Append(current, <<option_item[1], option_item[2]>>))]

\* --------------------------------------------------------------------------
\* The operations of a question
\* --------------------------------------------------------------------------
\* python truthiness of an optional list: None and [] are both false
Falsy(optional) == optional = None \/ optional[1] = <<>>

\* prompt_question: the reads of input() it does with first and second the texts
\* typed, the answer it stores and the exception it raises ("" for none).
\* QuizQuestion reads once.  MultipleChoiceQuizQuestion first calls the base
\* method when options is None or [], then iterates options to render them
\* (a TypeError when options is None) and reads.
prompt_question(q, first, second) ==
    IF q.kind = "QuizQuestion"
    THEN [q |-> [q EXCEPT !.answer = Some(first)], reads |-> 1, raised |-> ""]
    ELSE IF q.options = None
    THEN [q |-> [q EXCEPT !.answer = Some(first)], reads |-> 1,
          raised |-> "TypeError: 'NoneType' object is not iterable"]
    ELSE IF Falsy(q.options)
    THEN [q |-> [q EXCEPT !.answer = Some(second)], reads |-> 2, raised |-> ""]
    ELSE [q |-> [q EXCEPT !.answer = Some(first)], reads |-> 1, raised |-> ""]

\* mutant of increment_attempts: the attempt is not counted
increment_attempts_forgets(q) == q

\* increment_attempts
increment_attempts(q) == [q EXCEPT !.attempt_count = q.attempt_count + 1]

\* valid_possible_answers: the transformed option keys, in order
valid_possible_answers(q) ==
    [i \in 1..Len(q.options[1]) |-> transform(q.transformation, q.options[1][i][1])]

\* x in list
In(x, list) == \E i \in 1..Len(list) : list[i] = x

\* is_correct_answer
is_correct_answer(q) ==
    transform(q.transformation, q.answer[1]) = transform(q.transformation, q.correct_answer)

\* the number the invalid-answer notice of validate_response prints
attempts_remaining(q) == q.response_settings.max_attempts - q.attempt_count

\* MultipleChoiceQuizQuestion.validate_response, line 135: the test that
\* raises "Correct answer is not available"
correct_answer_missing(q) == ~In(q.correct_answer, valid_possible_answers(q))

\* mutant of validate_response: a choice that is no option key is printed as
\* invalid but the method goes on to return True
validate_response_no_return(q) ==
    IF q.correct_answer = <<>>
    THEN [valid |-> FALSE, raised |-> "ValueError: No correct answer provided",
          notices |-> <<>>]
    ELSE IF q.answer = None \/ q.answer[1] = <<>>
    THEN [valid |-> FALSE, raised |-> "ValueError: No answer provided", notices |-> <<>>]
    ELSE IF q.kind = "QuizQuestion"
    THEN [valid |-> TRUE, raised |-> "", notices |-> <<>>]
    ELSE IF q.options = None
    THEN [valid |-> FALSE, raised |-> "TypeError: 'NoneType' object is not iterable",
          notices |-> <<>>]
    ELSE IF correct_answer_missing(q)
    THEN [valid |-> FALSE, raised |-> "ValueError: Correct answer is not available",
          notices |-> <<>>]
    ELSE IF ~In(transform(q.transformation, q.answer[1]), valid_possible_answers(q))
    THEN [valid |-> TRUE, raised |-> "", notices |-> <<attempts_remaining(q)>>]
    ELSE [valid |-> TRUE, raised |-> "", notices |-> <<>>]

\* validate_response of both classes: the value returned, the exception raised
\* ("" for none) and the remaining-attempts numbers printed
validate_response(q) ==
    IF q.correct_answer = <<>>
    THEN [valid |-> FALSE, raised |-> "ValueError: No correct answer provided",
          notices |-> <<>>]
    ELSE IF q.answer = None \/ q.answer[1] = <<>>
    THEN [valid |-> FALSE, raised |-> "ValueError: No answer provided", notices |-> <<>>]
    ELSE IF q.kind = "QuizQuestion"
    THEN [valid |-> TRUE, raised |-> "", notices |-> <<>>]
    ELSE IF q.options = None
    THEN [valid |-> FALSE, raised |-> "TypeError: 'NoneType' object is not iterable",
          notices |-> <<>>]
    ELSE IF correct_answer_missing(q)
    THEN [valid |-> FALSE, raised |-> "ValueError: Correct answer is not available",
          notices |-> <<>>]
    ELSE IF ~In(transform(q.transformation, q.answer[1]), valid_possible_answers(q))
    THEN [valid |-> FALSE, raised |-> "", notices |-> <<attempts_remaining(q)>>]
    ELSE [valid |-> TRUE, raised |-> "", notices |-> <<>>]

\* print_question_header: on the first presentation a question number that is
\* not None (modelled as 0) is put in front of the question text
print_question_header(q, question_number) ==
    IF q.attempt_count = 0 /\ question_number # 0
    THEN [q EXCEPT !.question = <<question_number>> \o q.question]
    ELSE q

\* mutants of loop_continues: the loop tests <= instead of <, and stops one
\* attempt early
loop_continues_inclusive(is_valid_response, attempt_count, max_attempts) ==
    ~is_valid_response /\ attempt_count <= max_attempts

loop_continues_short(is_valid_response, attempt_count, max_attempts) ==
    ~is_valid_response /\ attempt_count + 1 < max_attempts

\* handle_question_and_answer, line 89: the condition of the retry loop
loop_continues(is_valid_response, attempt_count, max_attempts) ==
    ~is_valid_response /\ attempt_count < max_attempts

\* mutant of attempts_exhausted: the notice does not look at the last response
attempts_exhausted_at_max(is_valid_response, attempt_count, max_attempts) ==
    attempt_count = max_attempts

\* handle_question_and_answer, line 93: the condition of the exhausted notice
attempts_exhausted(is_valid_response, attempt_count, max_attempts) ==
    ~is_valid_response /\ attempt_count = max_attempts

\* handle_question_and_answer, lines 97-100: the feedback printed
feedback_message(q) ==
    IF is_correct_answer(q)
    THEN q.response_settings.correct_reponse
    ELSE q.response_settings.incorrect_response

\* --------------------------------------------------------------------------
\* Inputs: the texts typed and the questions constructed
\* --------------------------------------------------------------------------
Alphabet == {"a", " "}

Texts(n) == UNION {[1..k -> Alphabet] : k \in 0..n}

\* texts typed to the built-in questions
TypedAnswers ==
    {<<"y">>, <<"Y">>, <<"n">>, <<"N">>, <<"A">>, <<"b">>,
     <<"c", "e", "n", "t", "r", "a", "l", " ", "p", "r", "o", "c", "e", "s", "s", "i",
       "n", "g", " ", "u", "n", "i", "t">>,
     <<"r", "a", "n", "d", "o", "m", " ", "a", "c", "c", "e", "s", "s", " ", "m", "e",
       "m", "o", "r", "y">>,
     <<"G", "R", "A", "P", "H", "I", "C", "S", " ", "P", "R", "O", "C", "E", "S", "S",
       "I", "N", "G", " ", "U", "N", "I", "T">>}

Responses == Texts(MaxLen) \cup TypedAnswers

\* the constructor arguments of one question
Args(kind, question, correct_answer, transformation_name, response_settings, options) ==
    [kind |-> kind, question |-> question, correct_answer |-> correct_answer,
     transformation_name |-> transformation_name,
     response_settings |-> response_settings, options |-> options]

\* the constructor call for the arguments
new_question(args) ==
    IF args.kind = "QuizQuestion"
    THEN QuizQuestion(args.question, args.correct_answer, args.transformation_name,
                      args.response_settings)
    ELSE MultipleChoiceQuizQuestion(args.question, args.correct_answer,
                                    args.transformation_name, args.response_settings,
                                    args.options)

OptionsAB == <<<< <<"A">>, "Answer A" >>, << <<"B">>, "Answer B" >>>>

\* get_list_of_questions: the built-in bank
get_list_of_questions ==
    << Args("QuizQuestion", "What does CPU stand for?",
            <<"C", "e", "n", "t", "r", "a", "l", " ", "P", "r", "o", "c", "e", "s", "s",
              "i", "n", "g", " ", "U", "n", "i", "t">>, "title", None, None),
       Args("QuizQuestion", "What does RAM stand for?",
            <<"R", "a", "n", "d", "o", "m", " ", "A", "c", "c", "e", "s", "s", " ", "M",
              "e", "m", "o", "r", "y">>, "title", None, None),
       Args("QuizQuestion", "What does GPU stand for?",
            <<"G", "r", "a", "p", "h", "i", "c", "s", " ", "P", "r", "o", "c", "e", "s",
              "s", "i", "n", "g", " ", "U", "n", "i", "t">>, "title", None, None),
       Args("MultipleChoiceQuizQuestion", "Which answer is A?", <<"A">>, "title", None,
            Some(OptionsAB)) >>

\* the ResponseSettings startup() builds for its question
startup_response_settings ==
    [correct_reponse |-> "Great! Let's play :)",
     incorrect_response |-> "Another time then! Goodbye :)",
     max_attempts |-> 2, correct_points |-> 0]

\* startup(), lines 159-163: the question constructed and its two options added
startup_question ==
    add_option(
        add_option(
            MultipleChoiceQuizQuestion("Do you want to play?", <<"Y">>, "title",
                                       Some(startup_response_settings), None),
            << <<"Y">>, "Yes" >>),
        << <<"N">>, "No" >>)

\* explicitly supplied settings, and None for the default
SettingsChoices ==
    {None} \cup
    {Some([correct_reponse |-> "Right", incorrect_response |-> "Wrong",
           max_attempts |-> m, correct_points |-> p]) :
        m \in 0..MaxPolicyAttempts, p \in 0..MaxPoints}

CorrectAnswers == {<<>>, <<"a">>, <<"A">>, <<"b">>}

OptionsChoices ==
    {None, Some(<<>>), Some(OptionsAB),
     Some(<<<< <<"a">>, "Answer a" >>, << <<"a", "b">>, "Answer ab" >>>>)}

\* the single questions drawn: every class, correct answer, transformation,
\* settings and option list of the sets above
QuestionsWith(settings, choice_settings) ==
    {Args("QuizQuestion", "Q", c, t, s, None) :
        c \in CorrectAnswers, t \in transformations, s \in settings}
    \cup
    {Args("MultipleChoiceQuizQuestion", "Q", x[1], x[2], s, o) :
        x \in CorrectAnswers \X transformations, s \in choice_settings,
        o \in OptionsChoices}

QuestionChoices == QuestionsWith(SettingsChoices, SettingsChoices)

\* the settings that differ in the number of attempts they allow
AttemptsChoices ==
    {None} \cup
    {Some([correct_reponse |-> "Right", incorrect_response |-> "Wrong",
           max_attempts |-> m, correct_points |-> 1]) : m \in 0..MaxPolicyAttempts}

\* the questions that differ in the attempts they allow: a choice question
\* allows MultipleChoiceMaxAttempts whatever its settings, so it has the default
AttemptsQuestionChoices == QuestionsWith(AttemptsChoices, {None})

\* transformation names that are not keys of the table
InvalidNames == {"reverse", ""}

\* questions constructed with such a name
InvalidChoices ==
    {Args("QuizQuestion", "Q", <<"a">>, t, None, None) : t \in InvalidNames}
    \cup
    {Args("MultipleChoiceQuizQuestion", "Q", <<"A">>, t, None, Some(OptionsAB)) :
        t \in InvalidNames}

\* the questions the drawn banks are made of
BankChoices ==
    {Args("QuizQuestion", "Q", <<"a">>, "title", None, None),
     Args("QuizQuestion", "Q", <<"A">>, "swapcase",
          Some([correct_reponse |-> "Right", incorrect_response |-> "Wrong",
                max_attempts |-> 2, correct_points |-> 2]), None),
     Args("QuizQuestion", "Q", <<>>, "lower", None, None),
     Args("MultipleChoiceQuizQuestion", "Q", <<"A">>, "title", None, Some(OptionsAB)),
     Args("MultipleChoiceQuizQuestion", "Q", <<"a">>, "swapcase",
          Some([correct_reponse |-> "Right", incorrect_response |-> "Wrong",
                max_attempts |-> 1, correct_points |-> 2]), Some(OptionsAB)),
     Args("MultipleChoiceQuizQuestion", "Q", <<"b">>, "title", None, Some(OptionsAB))}

Banks == [1..BankLen -> BankChoices]

\* --------------------------------------------------------------------------
\* State
\* --------------------------------------------------------------------------
VARIABLES
    pc,          \* where the program is: "main", "startup", "start_quiz",
                 \* "display_score", "done", "raised" (an uncaught exception), or
                 \* "question" when one question is driven on its own
    questions,   \* the constructor arguments of the bank, in order
    num,         \* the 1-based number of the bank question handled, 0 for none
    cur,         \* the question object being handled
    supplied,    \* the response_settings argument cur was constructed with
    status,      \* of cur: "Unasked", "Asked", "Accepted", "Exhausted", "Raised"
    raised,      \* the uncaught exception, "" for none
    score,       \* SimpleQuiz.score
    reads,       \* input() calls done for cur
    notices,     \* remaining-attempts numbers printed for cur, in order
    max_notice,  \* whether the maximum-attempts notice was printed for cur
    feedback,    \* the feedback message printed for cur, "" for none
    displayed,   \* the <<score, total>> pairs display_score printed
    results,     \* is_correct_answer of each bank question update_score saw
    prompted,    \* the numbers of the questions prompted (0 is startup's)
    gate,        \* the status of startup's question when startup returned, and
                 \* the value startup returned
    requested,   \* the name set_transformation was last called with for cur
    texts        \* a text and the results of applying cur's transform to it
                 \* again and again, <<>> where no text is transformed on its own

vars == <<pc, questions, num, cur, supplied, status, raised, score, reads, notices,
          max_notice, feedback, displayed, results, prompted, gate, requested,
          texts>>

NoQuestion == QuizQuestion("", <<>>, "title", None)

\* the variables kept for the question being handled, at its construction
Fresh(q, settings) ==
    /\ cur' = q
    /\ supplied' = settings
    /\ requested' = q.transformation_name
    /\ status' = "Unasked"
    /\ reads' = 0
    /\ notices' = <<>>
    /\ max_notice' = FALSE
    /\ feedback' = ""

InitCommon ==
    /\ num = 0
    /\ score = 0
    /\ reads = 0
    /\ notices = <<>>
    /\ max_notice = FALSE
    /\ feedback = ""
    /\ displayed = <<>>
    /\ results = <<>>
    /\ prompted = {}
    /\ gate = [status |-> "Unasked", play |-> FALSE]

\* main() on the built-in bank
Init ==
    /\ pc = "main"
    /\ questions = get_list_of_questions
    /\ cur = NoQuestion
    /\ supplied = None
    /\ requested = NoQuestion.transformation_name
    /\ status = "Unasked"
    /\ raised = ""
    /\ texts = <<>>
    /\ InitCommon

\* main() on a drawn bank
InitBank ==
    /\ pc = "main"
    /\ questions \in Banks
    /\ cur = NoQuestion
    /\ supplied = None
    /\ requested = NoQuestion.transformation_name
    /\ status = "Unasked"
    /\ raised = ""
    /\ texts = <<>>
    /\ InitCommon

\* the exception the constructor call for the arguments raises, "" for none
new_question_raised(args) ==
    set_transformation(
        QuizQuestionFields(args.question, args.correct_answer, args.transformation_name,
                           args.response_settings),
        args.transformation_name).raised

\* one drawn question, constructed and about to be handled, or the exception
\* its construction raised
InitQuestionOf(choices) ==
    /\ questions = <<>>
    /\ texts = <<>>
    /\ \E args \in choices :
          /\ requested = args.transformation_name
          /\ IF new_question_raised(args) = ""
             THEN /\ pc = "question"
                  /\ cur = new_question(args)
                  /\ supplied = args.response_settings
                  /\ status = "Unasked"
                  /\ raised = ""
             ELSE /\ pc = "raised"
                  /\ cur = NoQuestion
                  /\ supplied = None
                  /\ status = "Raised"
                  /\ raised = new_question_raised(args)
    /\ InitCommon

InitQuestion == InitQuestionOf(QuestionChoices \cup InvalidChoices)

\* the same for the questions of every number of attempts
InitQuestionAttempts == InitQuestionOf(AttemptsQuestionChoices \cup InvalidChoices)

\* the texts transform is applied to on its own
TransformTexts == UNION {[1..k -> {"a", "B", " ", "1"}] : k \in 0..MaxLen}

\* a question with one of the transformations of the table, and a text
InitTransform ==
    /\ pc = "transform"
    /\ questions = <<>>
    /\ \E t \in transformations :
          /\ cur = QuizQuestion("Q", <<"a">>, t, None)
          /\ requested = t
    /\ supplied = None
    /\ status = "Unasked"
    /\ raised = ""
    /\ \E text \in TransformTexts : texts = <<text>>
    /\ InitCommon

\* --------------------------------------------------------------------------
\* Actions
\* --------------------------------------------------------------------------
\* startup(), lines 151-163: construct the yes/no question
startup ==
    /\ pc = "main"
    /\ pc' = "startup"
    /\ Fresh(startup_question, Some(startup_response_settings))
    /\ UNCHANGED <<questions, num, raised, score, displayed, results, prompted, gate,
                   texts>>

\* lines 164-166 and 195-196: the call of handle_question_and_answer came back
\* without an exception
returned(s) == s \in {"Accepted", "Exhausted"}

\* handle_question_and_answer: one prompt of the question with what follows it
\* up to the next prompt or the end of the method.  first and second are the
\* texts typed at the reads prompt_question does.
handle_question_and_answer(first, second) ==
    /\ pc \in {"startup", "start_quiz", "question"}
    /\ status \in {"Unasked", "Asked"}
    /\ LET headed == IF status = "Unasked" THEN print_question_header(cur, num) ELSE cur
           asked == prompt_question(headed, first, second)
           counted == increment_attempts(asked.q)
           checked == validate_response(counted)
           max_attempts == counted.response_settings.max_attempts
       IN  /\ cur' = (IF asked.raised # "" THEN asked.q ELSE counted)
           /\ prompted' = prompted \cup {num}
           /\ reads' = reads + asked.reads
           /\ IF asked.raised # ""
              THEN /\ raised' = asked.raised
                   /\ status' = "Raised"
                   /\ pc' = "raised"
                   /\ UNCHANGED <<notices, max_notice, feedback>>
              ELSE IF checked.raised # ""
              THEN /\ raised' = checked.raised
                   /\ status' = "Raised"
                   /\ pc' = "raised"
                   /\ UNCHANGED <<notices, max_notice, feedback>>
              ELSE /\ notices' = notices \o checked.notices
                   /\ IF loop_continues(checked.valid, counted.attempt_count, max_attempts)
                      THEN /\ status' = "Asked"
                           /\ UNCHANGED <<max_notice, feedback>>
                      ELSE /\ status' = IF checked.valid THEN "Accepted" ELSE "Exhausted"
                           /\ max_notice' = attempts_exhausted(checked.valid,
                                                counted.attempt_count, max_attempts)
                           /\ feedback' = feedback_message(counted)
                   /\ UNCHANGED <<pc, raised>>
    /\ UNCHANGED <<questions, num, supplied, requested, score, displayed, results, gate, texts>>

\* start_quiz, line 194: the loop takes question number n of the bank, or ends
\* and main goes on to display_score
next_question(n) ==
    IF n <= Len(questions)
    THEN /\ pc' = "start_quiz"
         /\ num' = n
         /\ Fresh(new_question(questions[n]), questions[n].response_settings)
    ELSE /\ pc' = "display_score"
         /\ UNCHANGED <<num, cur, supplied, requested, status, reads, notices, max_notice, feedback>>

\* mutant of main: start_quiz begins whatever startup returned
main_always_plays ==
    /\ pc = "startup"
    /\ returned(status)
    /\ gate' = [status |-> status, play |-> is_correct_answer(cur)]
    /\ next_question(1)
    /\ UNCHANGED <<questions, raised, score, displayed, results, prompted, texts>>

\* main(), lines 208-209, with line 166: startup returns is_correct_answer of its
\* question; when true start_quiz begins with the first question of the bank
main ==
    /\ pc = "startup"
    /\ returned(status)
    /\ gate' = [status |-> status, play |-> is_correct_answer(cur)]
    /\ IF is_correct_answer(cur)
       THEN next_question(1)
       ELSE /\ pc' = "done"
            /\ UNCHANGED <<num, cur, supplied, requested, status, reads, notices, max_notice,
                           feedback>>
    /\ UNCHANGED <<questions, raised, score, displayed, results, prompted, texts>>

\* mutant of updated_score: a correct answer counts one point whatever the settings
updated_score_one_point(s, q) ==
    IF is_correct_answer(q) THEN s + 1 ELSE s

\* mutant of updated_score: a correct answer counts the attempts it took
updated_score_counts_attempts(s, q) ==
    IF is_correct_answer(q) THEN s + q.attempt_count ELSE s

\* update_score: the score after question q was handled
updated_score(s, q) ==
    IF is_correct_answer(q) THEN s + q.response_settings.correct_points ELSE s

\* mutant of update_score: start_quiz swallows the exception of a question and
\* goes on with the bank
update_score_after_exception ==
    /\ pc \in {"start_quiz", "raised"}
    /\ num >= 1
    /\ returned(status) \/ status = "Raised"
    /\ score' = (IF status = "Raised" THEN score ELSE updated_score(score, cur))
    /\ results' = Append(results, status # "Raised" /\ is_correct_answer(cur))
    /\ next_question(num + 1)
    /\ UNCHANGED <<questions, raised, displayed, prompted, gate, texts>>

\* start_quiz, line 196: update_score for the question handled, then the loop
\* goes to the next question
update_score ==
    /\ pc = "start_quiz"
    /\ returned(status)
    /\ score' = updated_score(score, cur)
    /\ results' = Append(results, is_correct_answer(cur))
    /\ next_question(num + 1)
    /\ UNCHANGED <<questions, raised, displayed, prompted, gate, texts>>

\* display_score, then main() ends
display_score ==
    /\ pc = "display_score"
    /\ displayed' = Append(displayed, <<score, Len(questions)>>)
    /\ pc' = "done"
    /\ UNCHANGED <<questions, num, cur, supplied, requested, status, raised, score, reads, notices,
                   max_notice, feedback, results, prompted, gate, texts>>

\* the reads of one prompt: the second matters only where prompt_question reads twice
handle ==
    \E first \in Responses :
        \E second \in (IF cur.kind # "QuizQuestion" /\ cur.options = Some(<<>>)
                       THEN Responses ELSE {<<>>}) :
            handle_question_and_answer(first, second)

Next ==
    \/ startup
    \/ handle
    \/ main
    \/ update_score
    \/ display_score

\* the program on its built-in bank
Spec == Init /\ [][Next]_vars

\* the program on every bank of BankLen questions of BankChoices
SpecBank == InitBank /\ [][Next]_vars

\* cur.transform(text) for the text transformed last
transformed(q, text) == transform(q.transformation, text)

\* a call of cur.transform on the result of the call before
apply_transform ==
    /\ pc = "transform"
    /\ Len(texts) <= MaxApply
    /\ texts' = Append(texts, transformed(cur, texts[Len(texts)]))
    /\ UNCHANGED <<pc, questions, num, cur, supplied, requested, status, raised, score, reads,
                   notices, max_notice, feedback, displayed, results, prompted, gate>>

\* a call of cur.set_transformation(transformation_name) on a question that
\* was not asked yet
set_transformation_call(transformation_name) ==
    /\ pc = "question"
    /\ status = "Unasked"
    /\ LET set == set_transformation(cur, transformation_name)
       IN  /\ cur' = set.q
           /\ raised' = set.raised
           /\ pc' = IF set.raised = "" THEN pc ELSE "raised"
           /\ status' = IF set.raised = "" THEN status ELSE "Raised"
    /\ requested' = transformation_name
    /\ UNCHANGED <<questions, num, supplied, score, reads, notices, max_notice,
                   feedback, displayed, results, prompted, gate, texts>>

\* the names set_transformation is called with
set_transformation_any ==
    \E name \in transformations \cup InvalidNames : set_transformation_call(name)

NextQuestion ==
    \/ handle
    \/ set_transformation_any

NextTransform == apply_transform

\* transform applied again and again to every text of TransformTexts
SpecTransform == InitTransform /\ [][NextTransform]_vars

\* handle_question_and_answer on every question of QuestionChoices
SpecQuestion == InitQuestion /\ [][NextQuestion]_vars

\* the same where every read of input() returns: a prompt that can be done is
\* done in the end
SpecQuestionFair == InitQuestionAttempts /\ [][NextQuestion]_vars /\ WF_vars(handle)

\* --------------------------------------------------------------------------
\* Properties of the ask/validate/retry loop (SpecQuestion)
\* --------------------------------------------------------------------------
max_attempts_of(q) == q.response_settings.max_attempts

\* C1: attempt_count starts at 0, a step leaves it or adds exactly 1, and when
\* handle_question_and_answer has returned for a question with max_attempts >= 1,
\* attempt_count <= max_attempts.
C1_AttemptsWithinMax ==
    /\ cur.attempt_count = 0
    /\ [](returned(status) /\ max_attempts_of(cur) >= 1
            => cur.attempt_count <= max_attempts_of(cur))
    /\ [][cur'.attempt_count \in {cur.attempt_count, cur.attempt_count + 1}]_vars

\* C1 witness: a question accepted on the last of several attempts
C1_Witness ==
    /\ status = "Accepted"
    /\ cur.attempt_count > 1
    /\ cur.attempt_count = max_attempts_of(cur)

\* C2 as stated: after the loop ends, attempt_count = max_attempts exactly when
\* the question ended by exhaustion, so an accepted question has
\* attempt_count < max_attempts.
C2_ExhaustedIffAtMax ==
    returned(status) =>
        ((cur.attempt_count = max_attempts_of(cur)) <=> (status = "Exhausted"))

\* C2 amended: a question that ended by exhaustion has attempt_count =
\* max_attempts; an accepted question with max_attempts >= 1 has
\* 1 <= attempt_count <= max_attempts (equality when it is accepted on its last
\* attempt).
C2_ExhaustedAtMax ==
    /\ status = "Exhausted" => cur.attempt_count = max_attempts_of(cur)
    /\ status = "Accepted" /\ max_attempts_of(cur) >= 1
          => cur.attempt_count >= 1 /\ cur.attempt_count <= max_attempts_of(cur)

\* C2 witness: a question exhausted after its notice of the maximum was printed
C2_Witness ==
    /\ status = "Exhausted"
    /\ max_notice
    /\ cur.attempt_count = max_attempts_of(cur)

\* a question without the defects the configuration failure is for: a correct
\* answer that is not empty and, for a choice question, options among whose
\* transformed keys the transformed correct answer is
well_configured(q) ==
    /\ q.correct_answer # <<>>
    /\ q.kind = "MultipleChoiceQuizQuestion" =>
          /\ ~Falsy(q.options)
          /\ In(transform(q.transformation_name, q.correct_answer),
                valid_possible_answers(q))

\* C3: an empty response to a well configured question raises nothing: it
\* counts as one attempt, the question is asked again while attempt_count <
\* max_attempts and ends Exhausted otherwise.
C3_EmptyResponseRecoverable ==
    status # "Unasked" /\ well_configured(cur) /\ cur.answer = Some(<<>>)
        => /\ raised = ""
           /\ status = IF cur.attempt_count < max_attempts_of(cur)
                       THEN "Asked" ELSE "Exhausted"

\* the last response to cur is not empty and its transformed text is no
\* transformed option key
invalid_choice(q) ==
    /\ q.kind = "MultipleChoiceQuizQuestion"
    /\ q.answer # None
    /\ q.answer[1] # <<>>
    /\ ~In(transform(q.transformation_name, q.answer[1]), valid_possible_answers(q))

\* C4: a response to a well configured choice question that is not empty and
\* matches no option key takes the retry path: a notice is printed with
\* max_attempts - attempt_count (in 0..max_attempts-1, one less than the notice
\* before), and the question is asked again iff attempt_count < max_attempts.
C4_InvalidChoiceRetries ==
    status # "Unasked" /\ well_configured(cur) /\ invalid_choice(cur)
        => /\ raised = ""
           /\ Len(notices) = cur.attempt_count
           /\ \A i \in 1..Len(notices) : notices[i] = max_attempts_of(cur) - i
           /\ notices[Len(notices)] \in 0..(max_attempts_of(cur) - 1)
           /\ (status = "Asked") <=> (cur.attempt_count < max_attempts_of(cur))

\* C5: the first validation of a choice question (its correct answer and the
\* response not empty) raises "Correct answer is not available" exactly when
\* the transformed correct answer is no transformed option key.
C5_ConfigurationChecked ==
    /\ cur.kind = "MultipleChoiceQuizQuestion"
    /\ cur.options # None
    /\ cur.correct_answer # <<>>
    /\ status # "Unasked"
    /\ cur.attempt_count = 1
    /\ cur.answer # Some(<<>>)
    => ((raised = "ValueError: Correct answer is not available")
          <=> ~In(transform(cur.transformation_name, cur.correct_answer),
                  valid_possible_answers(cur)))

\* C6: when "Correct answer is not available" is raised no attempt has been
\* counted: attempt_count is 0.
C6_ConfigurationFailureCountsNoAttempt ==
    raised = "ValueError: Correct answer is not available" => cur.attempt_count = 0

\* what the code does where the failure is raised: it is raised by the first
\* validation, after the first attempt was counted
ConfigurationFailureAtFirstAttempt ==
    raised = "ValueError: Correct answer is not available" => cur.attempt_count = 1

\* --------------------------------------------------------------------------
\* Properties of the quiz run (Spec, SpecBank)
\* --------------------------------------------------------------------------
\* C7: startup returns true only when the transformed last answer is the key
\* "Y"; after startup's question ended with "N" accepted or Exhausted, no
\* question of the bank is ever prompted, the score is 0 and no score is
\* displayed.
C7_GateDeclinedRunsNothing ==
    /\ [][gate'.play /\ ~gate.play
            => /\ pc = "startup"
               /\ returned(status)
               /\ str_title(cur.answer[1]) = <<"Y">>]_vars
    /\ [](gate.status = "Exhausted" \/ (gate.status = "Accepted" /\ ~gate.play)
            => /\ prompted \subseteq {0}
               /\ num = 0
               /\ score = 0
               /\ displayed = <<>>
               /\ pc = "done")
    /\ [][pc = "startup" /\ returned(status) /\ str_title(cur.answer[1]) = <<"N">>
            => ~gate'.play]_vars

\* C7 witness: main() ended after startup's question was exhausted
C7_Witness ==
    /\ pc = "done"
    /\ gate.status = "Exhausted"
    /\ cur.attempt_count = max_attempts_of(cur)

\* C8: a question holds the settings it was constructed with unchanged; without
\* settings a QuizQuestion allows 1 attempt and a MultipleChoiceQuizQuestion 3;
\* startup's question, constructed with max_attempts = 2, is prompted at most
\* 2 times.
C8_SuppliedSettingsKept ==
    /\ supplied # None => cur.response_settings = supplied[1]
    /\ supplied = None =>
          max_attempts_of(cur) = (IF cur.kind = "QuizQuestion" THEN 1 ELSE 3)
    /\ pc = "startup" => reads <= 2 /\ cur.attempt_count <= 2

\* correct_points of the settings of bank question i
correct_points_of(i) == new_question(questions[i]).response_settings.correct_points

\* the sum of correct_points over the first k bank questions that were correct
RECURSIVE score_of(_)
score_of(k) ==
    IF k = 0 THEN 0
    ELSE score_of(k - 1) + (IF results[k] THEN correct_points_of(k) ELSE 0)

\* C9: the bank is processed in order; when a question has reached a terminal
\* state the score grows by its correct_points if the transformed last answer
\* equals the transformed correct answer and stays otherwise; after k questions
\* the score is the sum of correct_points of the correct ones among the first k.
C9_ScoreIsSumOfCorrectPoints ==
    /\ [](/\ Len(results) <= Len(questions)
          /\ score = score_of(Len(results))
          /\ (pc = "start_quiz" => num = Len(results) + 1))
    /\ [][score' # score \/ results' # results
            => LET correct == transform(cur.transformation_name, cur.answer[1])
                                = transform(cur.transformation_name, cur.correct_answer)
               IN  /\ pc = "start_quiz"
                   /\ returned(status)
                   /\ results' = Append(results, correct)
                   /\ score' = score + (IF correct
                                        THEN cur.response_settings.correct_points
                                        ELSE 0)]_vars

\* C9 witness: two questions with different correct_points answered correctly
C9_Witness ==
    /\ results = <<TRUE, TRUE>>
    /\ correct_points_of(1) # correct_points_of(2)
    /\ score = correct_points_of(1) + correct_points_of(2)

\* the exceptions of a question's authoring defects
ConfigurationFailures ==
    {"ValueError: No correct answer provided",
     "ValueError: Correct answer is not available"}

\* C10: once a configuration failure was raised while bank question num was
\* handled, the program takes no further step: it has ended with the exception,
\* no later question was or is prompted, the score is that of the questions
\* before num and no score is displayed.
C10_ConfigurationFailureIsFatal ==
    /\ [](raised \in ConfigurationFailures /\ num >= 1
            => /\ pc = "raised"
               /\ status = "Raised"
               /\ prompted \subseteq 0..num
               /\ Len(results) = num - 1
               /\ score = score_of(num - 1)
               /\ displayed = <<>>)
    /\ [][raised \notin ConfigurationFailures]_vars

\* C10 witness: the first question of a bank failed and a later one exists
C10_Witness ==
    /\ pc = "raised"
    /\ raised \in ConfigurationFailures
    /\ num = 1
    /\ Len(questions) > num

\* the order the code keeps: no bank question is prompted before startup's
\* question was accepted with yes, the bank questions are prompted in order,
\* each has returned before the next is taken, and the score is displayed at
\* most once, after the last question returned
events_in_order ==
    /\ [](prompted \ {0} # {} => gate.status = "Accepted" /\ gate.play)
    /\ [](\A n \in prompted : n <= num /\ (\A m \in 1..n : m \in prompted \/ m = num))
    /\ [][num' # num => num' = num + 1 /\ (num >= 1 => returned(status))]_vars
    /\ [](Len(displayed) <= 1)
    /\ [](displayed # <<>> => Len(results) = Len(questions) /\ gate.play)

\* C11: events_in_order, and when startup's question was accepted with yes the
\* program ends with every bank question prompted and the score displayed
\* exactly once.
C11_FixedOrderOfEvents ==
    /\ events_in_order
    /\ [](gate.play /\ pc \in {"done", "raised"}
            => /\ \A n \in 1..Len(questions) : n \in prompted
               /\ Len(displayed) = 1)

\* --------------------------------------------------------------------------
\* Properties of the transformations (SpecTransform, SpecQuestion)
\* --------------------------------------------------------------------------
\* C12 as stated: for every transformation of the table and every text,
\* transforming the transformed text again changes nothing.
C12_TransformIdempotent ==
    \A i \in 2..(Len(texts) - 1) : texts[i + 1] = texts[i]

\* C12 amended: that holds for title, upper, lower and capitalize (on texts of
\* ASCII letters, digits and spaces); swapcase applied twice gives the text back.
C12_IdempotentExceptSwapcase ==
    \A i \in 2..(Len(texts) - 1) :
        IF cur.transformation_name = "swapcase"
        THEN texts[i + 1] = texts[i - 1]
        ELSE texts[i + 1] = texts[i]

\* C12 witness: title changed a text and was applied to the result
C12_Witness ==
    /\ cur.transformation_name = "title"
    /\ Len(texts) = 3
    /\ texts[2] # texts[1]

\* C13: a name that is no key of the table makes the constructor or
\* set_transformation raise at once, before any prompt and with nothing run
\* after it; a name and function a question holds are always of the table (so
\* no comparison fails later), and a failed set_transformation leaves both as
\* they were.
C13_InvalidNameFailsWhenSet ==
    /\ [](requested \notin transformations
            => /\ raised = "ValueError: Invalid transformation"
               /\ pc = "raised"
               /\ prompted = {}
               /\ reads = 0)
    /\ [](/\ cur.transformation_name \in transformations
          /\ cur.transformation = cur.transformation_name
          /\ (raised = "" => cur.transformation_name = requested))
    /\ [][raised' = "ValueError: Invalid transformation" /\ raised = ""
            => /\ cur'.transformation_name = cur.transformation_name
               /\ cur'.transformation = cur.transformation]_vars
    /\ [][raised # "ValueError: Invalid transformation"]_vars

\* C13 witness: set_transformation failed on a question that had been given
\* another transformation than the one it was constructed with
C13_Witness ==
    /\ raised = "ValueError: Invalid transformation"
    /\ requested = "reverse"
    /\ cur.question = <<"Q">>
    /\ cur.transformation_name = "upper"

\* --------------------------------------------------------------------------
\* Properties of prompts, notices and feedback (SpecQuestion, SpecQuestionFair,
\* SpecBank, Spec)
\* --------------------------------------------------------------------------
\* C14: attempt_count is the number of input() reads done for the question, and
\* no read is done once the question is Accepted or Exhausted.
C14_AttemptCountCountsReads ==
    /\ [](reads = cur.attempt_count)
    /\ [][returned(status) => reads' = reads]_vars

\* C15: the maximum-attempts notice is printed exactly when the loop ended with
\* the last response invalid and attempt_count = max_attempts, never for an
\* accepted question; a response that passes validation on attempt n (after
\* n - 1 invalid ones) ends the loop with attempt_count = n, and no prompt follows.
C15_ExhaustedNoticeIffExhausted ==
    /\ [](max_notice <=> (status = "Exhausted"
                            /\ cur.attempt_count = max_attempts_of(cur)))
    /\ [](status = "Accepted"
            => ~max_notice /\ cur.attempt_count = Len(notices) + 1)
    /\ [][status' = "Accepted" => cur'.attempt_count = cur.attempt_count + 1]_vars
    /\ [][status # "Accepted"]_vars

\* C15 witness: a response accepted on the last allowed attempt, after two
\* invalid ones, without the notice
C15_Witness ==
    /\ status = "Accepted"
    /\ ~max_notice
    /\ Len(notices) = 2
    /\ cur.attempt_count = max_attempts_of(cur)

\* C16: an accepted choice question has options, and its transformed answer is
\* one of its transformed option keys.
C16_AcceptedChoiceIsOptionKey ==
    cur.kind = "MultipleChoiceQuizQuestion" /\ status = "Accepted"
        => /\ cur.options # None
           /\ \E i \in 1..Len(cur.options[1]) :
                 transform(cur.transformation_name, cur.answer[1])
                     = transform(cur.transformation_name, cur.options[1][i][1])

\* C16 witness: an accepted answer that is no option key as typed
C16_Witness ==
    /\ cur.kind = "MultipleChoiceQuizQuestion"
    /\ status = "Accepted"
    /\ \A i \in 1..Len(cur.options[1]) : cur.answer[1] # cur.options[1][i][1]

\* the question is over: accepted, exhausted or left by an exception
ended == status \in {"Accepted", "Exhausted", "Raised"}

C18_ExhaustedGetsNoPoints ==
    /\ [](status = "Exhausted"
            => /\ ~is_correct_answer(cur)
               /\ feedback = cur.response_settings.incorrect_response)
    /\ [][status = "Exhausted" => score' = score]_vars

\* C19: on the built-in bank the score never decreases, is between 0 and the
\* number of questions update_score has seen, is 0 until the first of them, and
\* the score displayed is at most the total displayed with it.
C19_ScoreWithinProcessed ==
    /\ [](0 <= score /\ score <= Len(results) /\ Len(results) <= Len(questions))
    /\ [](num = 0 => score = 0)
    /\ [][score' >= score]_vars
    /\ [](\A i \in 1..Len(displayed) :
            displayed[i][1] <= displayed[i][2] /\ displayed[i][2] = Len(questions))

\* C19 witness: every question of the bank answered correctly, the fourth on
\* its second attempt, and the score displayed
C19_Witness ==
    /\ displayed = << <<Len(questions), Len(questions)>> >>
    /\ score = Len(questions)
    /\ cur.attempt_count = 2

====
